---- MODULE Spec2Model ----
(***************************************************************************)
(* json_triage: shape inference and grouping of a directory of JSON files. *)
(* Two programs are modelled: json_triage.py (the "basic" variant, shape = *)
(* top-level keys) and json_triage_to_df_flat.py (the "flat" variant,      *)
(* shape = keys of the flattened document).                                *)
(*                                                                         *)
(* Python str values are modelled as sequences of one-character strings,   *)
(* so that f-string concatenation, str comparison and sorted() are         *)
(* computed and not assumed.  Python dicts are modelled as sequences of    *)
(* <<key, value>> pairs in insertion order with unique keys.               *)
(***************************************************************************)
EXTENDS Integers, Sequences, FiniteSets, TLC

VARIABLES
    data,             \* flatten_json: the parsed document handed to the call
    flattened,        \* flatten_json: the returned dict
    structure_key,    \* tuple(sorted(fields)) of that dict
    fpc,              \* position of the single-document run
    variant,          \* which program runs: "basic" or "flat"
    corpus,           \* the files iterate_json_files yields, in discovery order
    idx,              \* number of files the scan loop has completed
    field_frequency,  \* analyze_json_files: field_frequency
    all_fields,       \* analyze_json_files: all_fields
    file_structures,  \* analyze_json_files: file_structures
    file_data,        \* analyze_json_files: file_data (flat variant)
    total_files,      \* analyze_json_files: total_files
    common_fields,    \* analyze_json_files: common_fields
    gidx,             \* number of groups the deviation loop has completed
    missing_fields,   \* analyze_json_files: missing_fields
    extra_fields,     \* analyze_json_files: extra_fields
    report,           \* main: the string generate_summary_report returned
    stdout,           \* what main has printed
    written,          \* the files main has written
    error,            \* the exception that left main, or "none"
    pc                \* position of the corpus run

docvars == <<data, flattened, structure_key, fpc>>
runvars == <<variant, corpus, idx, field_frequency, all_fields, file_structures,
             file_data, total_files, common_fields, gidx, missing_fields,
             extra_fields, report, stdout, written, error, pc>>
vars == <<data, flattened, structure_key, fpc, variant, corpus, idx,
          field_frequency, all_fields, file_structures, file_data, total_files,
          common_fields, gidx, missing_fields, extra_fields, report, stdout,
          written, error, pc>>

----------------------------------------------------------------------------
(* Bounds *)

MaxNodes == 5     \* generated documents have at most this many JSON nodes
MaxFiles == 3     \* a corpus has at most this many .json files

----------------------------------------------------------------------------
(* Python str: comparison, sorted(), str(int) *)

\* The characters that occur, in code-point order ('.' < digits < 'A' < '[' < ']' < 'a'..'z').
CodePoints ==
    <<".", "0", "1", "2", "3", "4", "5", "6", "7", "8", "9", "A", "[", "]",
      "a", "b", "c", "d", "e", "g", "i", "m", "n", "r", "s", "t", "u", "x", "y">>

Ord(c) == CHOOSE i \in 1..Len(CodePoints) : CodePoints[i] = c

RECURSIVE StrLess(_, _)
StrLess(s, t) ==
    IF s = <<>> THEN t # <<>>
    ELSE IF t = <<>> THEN FALSE
    ELSE IF Head(s) = Head(t) THEN StrLess(Tail(s), Tail(t))
    ELSE Ord(Head(s)) < Ord(Head(t))

RECURSIVE sorted(_)
sorted(S) ==
    IF S = {} THEN <<>>
    ELSE LET m == CHOOSE x \in S : \A y \in S \ {x} : StrLess(x, y)
         IN  <<m>> \o sorted(S \ {m})

RECURSIVE str(_)
str(n) ==
    IF n < 10 THEN <<CodePoints[n + 2]>>
    ELSE str(n \div 10) \o <<CodePoints[(n % 10) + 2]>>

----------------------------------------------------------------------------
(* Parsed JSON values (what json.load returns) *)

Num(lexeme) == [t |-> "num", v |-> lexeme]
Str(chars)  == [t |-> "str", v |-> chars]
Bool(b)     == [t |-> "bool", v |-> b]
Null        == [t |-> "null", v |-> <<>>]
Arr(items)  == [t |-> "list", v |-> items]
Obj(items)  == [t |-> "dict", v |-> items]

IsDict(x)   == x.t = "dict"
IsList(x)   == x.t = "list"
IsScalar(x) == x.t \in {"num", "str", "bool", "null"}

----------------------------------------------------------------------------
(* Python dict *)

DictKeys(d) == {d[i][1] : i \in 1..Len(d)}

DictGet(d, k) == d[CHOOSE i \in 1..Len(d) : d[i][1] = k][2]

\* d[k] = v
DictSet(d, k, v) ==
    IF k \in DictKeys(d)
    THEN [i \in 1..Len(d) |-> IF d[i][1] = k THEN <<k, v>> ELSE d[i]]
    ELSE Append(d, <<k, v>>)

\* d.update(e)
RECURSIVE DictUpdate(_, _)
DictUpdate(d, e) ==
    IF e = <<>> THEN d
    ELSE DictUpdate(DictSet(d, Head(e)[1], Head(e)[2]), Tail(e))

----------------------------------------------------------------------------
(* flatten_json *)

\* f"{prefix}.{key}" if prefix else key
ObjectKey(prefix, key) ==
    IF prefix # <<>> THEN prefix \o <<".">> \o key ELSE key

\* f"{prefix}[{i}]" if prefix else f"[{i}]"
IndexKey(prefix, i) ==
    IF prefix # <<>> THEN prefix \o <<"[">> \o str(i) \o <<"]">>
    ELSE <<"[">> \o str(i) \o <<"]">>

\* faulty variant: the list itself is stored, flattened[new_key] = value
ArrayPlaceholder_raw(value) == value

\* f"Array[{len(value)}]"
ArrayPlaceholder(value) ==
    Str(<<"A", "r", "r", "a", "y", "[">> \o str(Len(value.v)) \o <<"]">>)

RECURSIVE flatten_json(_, _)
RECURSIVE FlattenDictItems(_, _, _)
RECURSIVE FlattenListItems(_, _, _, _)

\* faulty variant: the object branch recurses into a list as it does into a dict
RECURSIVE FlattenDictItems_expand(_, _, _)
FlattenDictItems_expand(items, prefix, acc) ==
    IF items = <<>> THEN acc
    ELSE LET key     == Head(items)[1]
             value   == Head(items)[2]
             new_key == ObjectKey(prefix, key)
             next    == IF IsDict(value) \/ IsList(value)
                        THEN DictUpdate(acc, flatten_json(value, new_key))
                        ELSE DictSet(acc, new_key, value)
         IN  FlattenDictItems_expand(Tail(items), prefix, next)

\* the loop "for key, value in data.items()" over the remaining items
FlattenDictItems(items, prefix, acc) ==
    IF items = <<>> THEN acc
    ELSE LET key     == Head(items)[1]
             value   == Head(items)[2]
             new_key == ObjectKey(prefix, key)
             next    == IF IsDict(value)
                        THEN DictUpdate(acc, flatten_json(value, new_key))
                        ELSE IF IsList(value)
                        THEN DictSet(acc, new_key, ArrayPlaceholder(value))
                        ELSE DictSet(acc, new_key, value)
         IN  FlattenDictItems(Tail(items), prefix, next)

\* the loop "for i, item in enumerate(data)" over the remaining items, i 0-based
FlattenListItems(items, i, prefix, acc) ==
    IF items = <<>> THEN acc
    ELSE LET item    == Head(items)
             new_key == IndexKey(prefix, i)
             next    == IF IsDict(item)
                        THEN DictUpdate(acc, flatten_json(item, new_key))
                        ELSE IF IsList(item)
                        THEN DictSet(acc, new_key, ArrayPlaceholder(item))
                        ELSE DictSet(acc, new_key, item)
         IN  FlattenListItems(Tail(items), i + 1, prefix, next)

\* faulty variant: the branches test truthiness too ("if data and isinstance(data, dict)"),
\* so an empty container falls through to the scalar branch
flatten_json_truthy(d, prefix) ==
    IF IsDict(d) /\ d.v # <<>> THEN FlattenDictItems(d.v, prefix, <<>>)
    ELSE IF IsList(d) /\ d.v # <<>> THEN FlattenListItems(d.v, 0, prefix, <<>>)
    ELSE <<<<prefix, d>>>>

flatten_json(d, prefix) ==
    IF IsDict(d) THEN FlattenDictItems(d.v, prefix, <<>>)
    ELSE IF IsList(d) THEN FlattenListItems(d.v, 0, prefix, <<>>)
    ELSE <<<<prefix, d>>>>

\* faulty variant: structure_key = tuple(d.keys()), the sort forgotten
StructureKey_unsorted(d) == [i \in 1..Len(d) |-> d[i][1]]

\* fields = set(d.keys()); structure_key = tuple(sorted(fields))
StructureKey(d) == sorted(DictKeys(d))

----------------------------------------------------------------------------
(* Documents *)

Keys == {<<"a">>, <<"b">>}

Leaves == {Num(<<"1">>), Arr(<<>>), Obj(<<>>)}

KeySeqs(n) == {ks \in [1..n -> Keys] : \A i, j \in 1..n : i # j => ks[i] # ks[j]}

RECURSIVE Trees(_)
RECURSIVE Forests(_)

\* the sequences of documents with n nodes in total
Forests(n) ==
    IF n = 0 THEN {<<>>}
    ELSE UNION {{<<x>> \o f : x \in Trees(j), f \in Forests(n - j)} : j \in 1..n}

\* the documents with exactly n nodes
Trees(n) ==
    IF n = 1 THEN Leaves
    ELSE LET F == Forests(n - 1)
         IN  {Arr(f) : f \in F} \cup
             UNION {{Obj([i \in 1..Len(f) |-> <<ks[i], f[i]>>]) : ks \in KeySeqs(Len(f))}
                    : f \in {g \in F : Len(g) <= Cardinality(Keys)}}

GeneratedDocs == UNION {Trees(n) : n \in 1..MaxNodes}

K(s) == CASE s = "a" -> <<"a">>
          [] s = "b" -> <<"b">>
          [] s = "c" -> <<"c">>
          [] s = "id" -> <<"i", "d">>
          [] s = "items" -> <<"i", "t", "e", "m", "s">>
          [] s = "user" -> <<"u", "s", "e", "r">>
          [] s = "name" -> <<"n", "a", "m", "e">>
          [] s = "tags" -> <<"t", "a", "g", "s">>
          [] s = "a.b" -> <<"a", ".", "b">>

N1 == Num(<<"1">>)
N2 == Num(<<"2">>)
N3 == Num(<<"3">>)

\* {"items":[{"id":1},{"id":2}]}
ItemsDoc ==
    Obj(<< <<K("items"), Arr(<<Obj(<< <<K("id"), N1>> >>), Obj(<< <<K("id"), N2>> >>)>>)>> >>)

\* [{"id":1},{"id":2}]
ItemsArray == Arr(<<Obj(<< <<K("id"), N1>> >>), Obj(<< <<K("id"), N2>> >>)>>)

\* {"user":{"name":"x","tags":[1,2,3]}}
UserDoc ==
    Obj(<< <<K("user"), Obj(<< <<K("name"), Str(<<"x">>)>>,
                               <<K("tags"), Arr(<<N1, N2, N3>>)>> >>)>> >>)

\* {"a.b":1,"a":{"b":2}} and {"a":{"b":2},"a.b":1}: two paths spell the same key
ClashDoc  == Obj(<< <<K("a.b"), N1>>, <<K("a"), Obj(<< <<K("b"), N2>> >>)>> >>)
ClashDoc2 == Obj(<< <<K("a"), Obj(<< <<K("b"), N2>> >>)>>, <<K("a.b"), N1>> >>)

\* [[1,2],[],{},null,true,[{"a":[]}]]
MixedArray ==
    Arr(<<Arr(<<N1, N2>>), Arr(<<>>), Obj(<<>>), Null, Bool("true"),
          Arr(<<Obj(<< <<K("a"), Arr(<<>>)>> >>)>>)>>)

ScenarioDocs == {ItemsDoc, ItemsArray, UserDoc, ClashDoc, ClashDoc2, MixedArray,
                 Null, Str(<<"x">>)}

FlattenInputs == GeneratedDocs \cup ScenarioDocs

----------------------------------------------------------------------------
(* A single call flatten_json(data) followed by the fingerprint *)

\* main has not produced a report
NoReport == [title |-> "none"]

IdleRun ==
    /\ variant = "flat" /\ corpus = <<>> /\ idx = 0
    /\ field_frequency = <<>> /\ all_fields = {} /\ file_structures = <<>>
    /\ file_data = <<>> /\ total_files = 0 /\ common_fields = {} /\ gidx = 0
    /\ missing_fields = <<>> /\ extra_fields = <<>> /\ report = NoReport
    /\ stdout = <<>> /\ written = {} /\ error = "none" /\ pc = "idle"

InitDoc ==
    /\ data \in FlattenInputs
    /\ flattened = <<>>
    /\ structure_key = <<>>
    /\ fpc = "call"
    /\ IdleRun

Flatten ==
    /\ fpc = "call"
    /\ flattened' = flatten_json(data, <<>>)
    /\ fpc' = "flattened"
    /\ UNCHANGED <<data, structure_key>>
    /\ UNCHANGED runvars

Fingerprint ==
    /\ fpc = "flattened"
    /\ structure_key' = StructureKey(flattened)
    /\ fpc' = "keyed"
    /\ UNCHANGED <<data, flattened>>
    /\ UNCHANGED runvars

----------------------------------------------------------------------------
(* The corpus: what iterate_json_files yields and what open/json.load make of it *)

NotJson    == [t |-> "invalid", v |-> <<>>]      \* json.load raises JSONDecodeError
Unreadable == [t |-> "unreadable", v |-> <<>>]   \* open raises OSError

Parses(content) == content.t \notin {"invalid", "unreadable"}

\* {"a":1,"b":2}, {"b":2,"a":1}, {"a":5,"c":6}
DocAB == Obj(<< <<K("a"), N1>>, <<K("b"), N2>> >>)
DocBA == Obj(<< <<K("b"), N2>>, <<K("a"), N1>> >>)
DocAC == Obj(<< <<K("a"), Num(<<"5">>)>>, <<K("c"), Num(<<"6">>)>> >>)
\* {"a":{"b":1,"c":[]}} and {"a":{"c":[],"b":1}}
DocNest  == Obj(<< <<K("a"), Obj(<< <<K("b"), N1>>, <<K("c"), Arr(<<>>)>> >>)>> >>)
DocNest2 == Obj(<< <<K("a"), Obj(<< <<K("c"), Arr(<<>>)>>, <<K("b"), N1>> >>)>> >>)
\* [{"a":1}], 1, {}
DocArray  == Arr(<<Obj(<< <<K("a"), N1>> >>)>>)
DocScalar == N1
DocEmpty  == Obj(<<>>)

CorpusDocs == {DocAB, DocBA, DocAC, DocNest, DocNest2, DocArray, DocScalar, DocEmpty}

Contents == CorpusDocs \cup {NotJson, Unreadable}

FileName(i) == <<"f">> \o str(i)

Corpora ==
    UNION {{[i \in 1..n |-> [file_name |-> FileName(i), content |-> c[i]]]
            : c \in [1..n -> Contents]} : n \in 0..MaxFiles}

----------------------------------------------------------------------------
(* analyze_json_files, generate_summary_report, main *)

\* The dict whose keys are the document's fields: flatten_json(data) in the flat
\* variant, data itself in the basic variant.
FieldDict(v, d) == IF v = "flat" THEN flatten_json(d, <<>>) ELSE d.v

\* set(data.keys()) of the basic variant raises AttributeError unless data is a dict
HasKeys(v, d) == v = "flat" \/ IsDict(d)

\* for field in fields: field_frequency[field] += 1
CountFields(ff, fields) ==
    [k \in DOMAIN ff \cup fields |->
        IF k \in fields THEN (IF k \in DOMAIN ff THEN ff[k] ELSE 0) + 1 ELSE ff[k]]

\* d[key].append(x) on a defaultdict(list)
AppendTo(d, key, x) ==
    IF key \in DictKeys(d) THEN DictSet(d, key, Append(DictGet(d, key), x))
    ELSE Append(d, <<key, <<x>>>>)

\* faulty variant: total_files = len(file_structures), the number of groups
TotalFiles_groups(fs) == Len(fs)

\* sum(len(files) for files in file_structures.values())
RECURSIVE TotalFiles(_)
TotalFiles(fs) == IF fs = <<>> THEN 0 ELSE Len(Head(fs)[2]) + TotalFiles(Tail(fs))

\* faulty variant: "count <= total_files"
CommonFields_atmost(ff, total) == {k \in DOMAIN ff : ff[k] <= total}

\* set(field for field, count in field_frequency.items() if count == total_files)
CommonFields(ff, total) == {k \in DOMAIN ff : ff[k] = total}

\* faulty variant: extra = common_fields - set(structure), the operands swapped
Extra_swapped(common, structure) == common \ {structure[i] : i \in 1..Len(structure)}

\* missing = common_fields - set(structure); extra = set(structure) - common_fields
Missing(common, structure) == common \ {structure[i] : i \in 1..Len(structure)}
Extra(common, structure)   == {structure[i] : i \in 1..Len(structure)} \ common

\* the orders in which iterating a set can deliver its elements
Orders(S) == {s \in [1..Cardinality(S) -> S] : \A i, j \in 1..Cardinality(S) : i # j => s[i] # s[j]}

\* for file in files: if fields: d[file].extend(fields)
RECURSIVE ExtendAll(_, _, _)
ExtendAll(d, files, fields) ==
    IF files = <<>> \/ fields = <<>> THEN d
    ELSE LET f == Head(files)
             e == IF f \in DictKeys(d) THEN DictSet(d, f, DictGet(d, f) \o fields)
                  ELSE Append(d, <<f, fields>>)
         IN  ExtendAll(e, Tail(files), fields)

\* faulty variant: the percentage base is computed before the loop, 100/total_files
DivisionByZero_eager(ff, total) == total = 0

\* count/total_files inside the loop over field_frequency.items()
DivisionByZero(ff, total) == total = 0 /\ DOMAIN ff # {}

\* count/total_files*100 formatted with :.2f, in hundredths of a percent
Percent(count, total) == (2 * 10000 * count + total) \div (2 * total)

\* generate_summary_report
SummaryReport(ff, mf, ef, fs) ==
    LET total == TotalFiles(fs)
    IN  [title     |-> "JSON Files Analysis Report",
         total     |-> <<"Total files analyzed: ", total>>,
         frequency |-> [k \in DOMAIN ff |-> <<ff[k], Percent(ff[k], total)>>],
         missing   |-> mf,
         extra     |-> ef,
         grouping  |-> [i \in 1..Len(fs) |->
                          [fields |-> fs[i][1],
                           count  |-> Len(fs[i][2]),
                           files  |-> SubSeq(fs[i][2], 1, IF Len(fs[i][2]) > 5 THEN 5 ELSE Len(fs[i][2])),
                           more   |-> Len(fs[i][2]) > 5]]]

InitRun ==
    /\ variant \in {"basic", "flat"}
    /\ corpus \in Corpora
    /\ idx = 0
    /\ field_frequency = <<>>
    /\ all_fields = {}
    /\ file_structures = <<>>
    /\ file_data = <<>>
    /\ total_files = 0
    /\ common_fields = {}
    /\ gidx = 0
    /\ missing_fields = <<>>
    /\ extra_fields = <<>>
    /\ report = NoReport
    /\ stdout = <<>>
    /\ written = {}
    /\ error = "none"
    /\ pc = "scan"
    /\ data = Null /\ flattened = <<>> /\ structure_key = <<>> /\ fpc = "idle"

\* faulty variant: the read is wrapped in try/except and the loop continues with the next file
ReadFails_skip ==
    /\ pc = "scan" /\ idx < Len(corpus)
    /\ ~Parses(corpus[idx + 1].content)
    /\ idx' = idx + 1
    /\ UNCHANGED <<variant, corpus, field_frequency, all_fields, file_structures,
                   file_data, total_files, common_fields, gidx, missing_fields,
                   extra_fields, report, stdout, written, error, pc>>
    /\ UNCHANGED docvars

\* with open(file_path) as f: data = json.load(f) raises; nothing catches it
ReadFails ==
    /\ pc = "scan" /\ idx < Len(corpus)
    /\ ~Parses(corpus[idx + 1].content)
    /\ error' = (IF corpus[idx + 1].content = NotJson THEN "JSONDecodeError" ELSE "OSError")
    /\ pc' = "aborted"
    /\ UNCHANGED <<variant, corpus, idx, field_frequency, all_fields, file_structures,
                   file_data, total_files, common_fields, gidx, missing_fields,
                   extra_fields, report, stdout, written>>
    /\ UNCHANGED docvars

\* basic variant: data.keys() on a list or a scalar raises AttributeError
KeysFails ==
    /\ pc = "scan" /\ idx < Len(corpus)
    /\ Parses(corpus[idx + 1].content)
    /\ ~HasKeys(variant, corpus[idx + 1].content)
    /\ error' = "AttributeError"
    /\ pc' = "aborted"
    /\ UNCHANGED <<variant, corpus, idx, field_frequency, all_fields, file_structures,
                   file_data, total_files, common_fields, gidx, missing_fields,
                   extra_fields, report, stdout, written>>
    /\ UNCHANGED docvars

\* one iteration of the scan loop
ProcessFile ==
    /\ pc = "scan" /\ idx < Len(corpus)
    /\ Parses(corpus[idx + 1].content)
    /\ HasKeys(variant, corpus[idx + 1].content)
    /\ LET file   == corpus[idx + 1]
           d      == FieldDict(variant, file.content)
           fields == DictKeys(d)
           key    == StructureKey(d)
       IN  /\ all_fields' = all_fields \cup fields
           /\ field_frequency' = CountFields(field_frequency, fields)
           /\ file_structures' = AppendTo(file_structures, key, file.file_name)
           /\ file_data' = IF variant = "flat"
                           THEN AppendTo(file_data, key, <<file.file_name, d>>)
                           ELSE file_data
    /\ idx' = idx + 1
    /\ UNCHANGED <<variant, corpus, total_files, common_fields, gidx, missing_fields,
                   extra_fields, report, stdout, written, error, pc>>
    /\ UNCHANGED docvars

\* after the scan loop: total_files and common_fields
ComputeCommon ==
    /\ pc = "scan" /\ idx = Len(corpus)
    /\ total_files' = TotalFiles(file_structures)
    /\ common_fields' = CommonFields(field_frequency, TotalFiles(file_structures))
    /\ gidx' = 0
    /\ pc' = "deviation"
    /\ UNCHANGED <<variant, corpus, idx, field_frequency, all_fields, file_structures,
                   file_data, missing_fields, extra_fields, report, stdout, written, error>>
    /\ UNCHANGED docvars

\* one iteration of "for structure, files in file_structures.items()"
Deviation ==
    /\ pc = "deviation" /\ gidx < Len(file_structures)
    /\ LET structure == file_structures[gidx + 1][1]
           files     == file_structures[gidx + 1][2]
       IN  \E missing \in Orders(Missing(common_fields, structure)),
              extra \in Orders(Extra(common_fields, structure)) :
               /\ missing_fields' = ExtendAll(missing_fields, files, missing)
               /\ extra_fields' = ExtendAll(extra_fields, files, extra)
    /\ gidx' = gidx + 1
    /\ UNCHANGED <<variant, corpus, idx, field_frequency, all_fields, file_structures,
                   file_data, total_files, common_fields, report, stdout, written, error, pc>>
    /\ UNCHANGED docvars

\* analyze_json_files returns; main builds, prints and saves the report
Report ==
    /\ pc = "deviation" /\ gidx = Len(file_structures)
    /\ IF DivisionByZero(field_frequency, TotalFiles(file_structures))
       THEN /\ error' = "ZeroDivisionError"
            /\ pc' = "aborted"
            /\ UNCHANGED <<report, stdout, written>>
       ELSE /\ report' = SummaryReport(field_frequency, missing_fields, extra_fields, file_structures)
            /\ stdout' = <<report', <<"Report saved to: ", "report">>>>
            /\ written' = {<<"report", 0>>}
            /\ pc' = IF variant = "flat" THEN "export" ELSE "done"
            /\ UNCHANGED error
    /\ UNCHANGED <<variant, corpus, idx, field_frequency, all_fields, file_structures,
                   file_data, total_files, common_fields, gidx, missing_fields, extra_fields>>
    /\ UNCHANGED docvars

\* flat variant: create_dataframes and one to_csv per group
Export ==
    /\ pc = "export"
    /\ written' = written \cup {<<"group", i>> : i \in 1..Len(file_data)}
    /\ stdout' = stdout \o [i \in 1..Len(file_data) |-> <<"Group DataFrame saved to: ", i>>]
    /\ pc' = "done"
    /\ UNCHANGED <<variant, corpus, idx, field_frequency, all_fields, file_structures,
                   file_data, total_files, common_fields, gidx, missing_fields,
                   extra_fields, report, error>>
    /\ UNCHANGED docvars

Init == InitDoc \/ InitRun

Next == Flatten \/ Fingerprint \/ ReadFails \/ KeysFails \/ ProcessFile \/ ComputeCommon
            \/ Deviation \/ Report \/ Export

Spec == Init /\ [][Next]_vars

TypeOK ==
    /\ fpc \in {"idle", "call", "flattened", "keyed"}
    /\ pc \in {"idle", "scan", "deviation", "export", "done", "aborted"}

----------------------------------------------------------------------------
(* Vocabulary of the properties *)

Returned == fpc \in {"flattened", "keyed"}

\* the scan loop has ended without an exception
Scanned == pc \in {"deviation", "export", "done"}

\* analyze_json_files has returned
Analyzed == (pc = "deviation" /\ gidx = Len(file_structures)) \/ pc \in {"export", "done"}

AsSet(s) == {s[i] : i \in 1..Len(s)}

\* d.get(key, [])
ListOf(d, key) == IF key \in DictKeys(d) THEN DictGet(d, key) ELSE <<>>

\* the fields of the i-th file's document
DocFields(i) == DictKeys(FieldDict(variant, corpus[i].content))

IsPrefix(p, s) == Len(p) <= Len(s) /\ SubSeq(s, 1, Len(p)) = p

ArrayN(n) == Str(<<"A", "r", "r", "a", "y", "[", n, "]">>)

\* every document that differs from d only in the order of the keys of its objects
RECURSIVE Reorderings(_)
Reorderings(d) ==
    IF ~(IsDict(d) \/ IsList(d)) \/ d.v = <<>> THEN {d}
    ELSE LET n      == Len(d.v)
             child(i) == IF IsDict(d) THEN d.v[i][2] ELSE d.v[i]
             subs   == {g \in [1..n -> UNION {Reorderings(child(i)) : i \in 1..n}] :
                          \A i \in 1..n : g[i] \in Reorderings(child(i))}
         IN  IF IsList(d) THEN {Arr(g) : g \in subs}
             ELSE {Obj([i \in 1..n |-> <<d.v[p[i]][1], g[p[i]]>>]) :
                       p \in Permutations(1..n), g \in subs}

\* the fields the flattener visits, as <<path, value>>: the fields of the top-level
\* object, or of the objects in the top-level array, followed through nested objects
RECURSIVE VisitedFields(_, _)
VisitedFields(d, prefix) ==
    UNION {LET path == IF prefix = <<>> THEN d.v[i][1] ELSE prefix \o <<".">> \o d.v[i][1]
               val  == d.v[i][2]
           IN  {<<path, val>>} \cup (IF IsDict(val) THEN VisitedFields(val, path) ELSE {})
           : i \in 1..Len(d.v)}

\* the elements of a top-level array, as <<path, value>>
VisitedItems(d) == {<<(<<"[">> \o str(i - 1) \o <<"]">>), d.v[i]>> : i \in 1..Len(d.v)}

Visited(d) ==
    IF IsDict(d) THEN VisitedFields(d, <<>>)
    ELSE IF IsList(d)
    THEN VisitedItems(d) \cup
         UNION {IF IsDict(e[2]) THEN VisitedFields(e[2], e[1]) ELSE {} : e \in VisitedItems(d)}
    ELSE {}

\* the keys of the result that lie under a path
Under(path) == {k \in DictKeys(flattened) :
                  k = path \/ IsPrefix(path \o <<".">>, k) \/ IsPrefix(path \o <<"[">>, k)}

----------------------------------------------------------------------------
(* C1 *)

\* C1 as stated: {"items":[{"id":1},{"id":2}]} flattens to exactly
\* {"items[0].id": 1, "items[1].id": 2}.
C1_ItemsExpanded ==
    (Returned /\ data = ItemsDoc) =>
        flattened = << <<K("items") \o <<"[", "0", "]", ".">> \o K("id"), N1>>,
                       <<K("items") \o <<"[", "1", "]", ".">> \o K("id"), N2>> >>

\* C1 amended: an array held by an object field is not expanded but replaced by its
\* length placeholder, so {"items":[{"id":1},{"id":2}]} flattens to exactly
\* {"items": "Array[2]"}; the indexed expansion is that of a top-level array:
\* [{"id":1},{"id":2}] flattens to exactly {"[0].id": 1, "[1].id": 2}.
\* (Documents in which two different fields spell the same path are set aside.)
C1_ArrayFieldCollapsed ==
    Returned =>
        /\ data = ItemsDoc => flattened = << <<K("items"), ArrayN("2")>> >>
        /\ data = ItemsArray =>
               flattened = << <<(<<"[", "0", "]", ".">> \o K("id")), N1>>,
                              <<(<<"[", "1", "]", ".">> \o K("id")), N2>> >>
        /\ IsDict(data) =>
               \A e \in VisitedFields(data, <<>>) :
                   IsList(e[2]) =>
                       /\ e[1] \in DictKeys(flattened)
                       /\ DictGet(flattened, e[1]).t = "str"
                       /\ DictGet(flattened, e[1]).v =
                              <<"A", "r", "r", "a", "y", "[">> \o str(Len(e[2].v)) \o <<"]">>
                       /\ \A k \in DictKeys(flattened) : ~IsPrefix(e[1] \o <<"[">>, k)

C1_Witness == fpc = "keyed" /\ data = ItemsDoc /\ structure_key = <<K("items")>>

----------------------------------------------------------------------------
(* C2 *)

\* C2: every value of the dict flatten_json returns is a scalar or an "Array[N]"
\* placeholder string, never a dict or a list, and no key occurs twice.
C2_FlatValues ==
    /\ Returned =>
          /\ \A i \in 1..Len(flattened) : IsScalar(flattened[i][2])
          /\ \A i, j \in 1..Len(flattened) : i # j => flattened[i][1] # flattened[j][1]
    /\ \A g \in 1..Len(file_data) : \A m \in 1..Len(file_data[g][2]) :
          LET d == file_data[g][2][m][2]
          IN  /\ \A i \in 1..Len(d) : IsScalar(d[i][2])
              /\ \A i, j \in 1..Len(d) : i # j => d[i][1] # d[j][1]

C2_Witness ==
    /\ fpc = "keyed" /\ data = MixedArray
    /\ <<(<<"[", "0", "]">>), ArrayN("2")>> \in AsSet(flattened)
    /\ <<(<<"[", "3", "]">>), Null>> \in AsSet(flattened)

----------------------------------------------------------------------------
(* C3 *)

\* C3: after the scan of a corpus of N documents, the frequency of a key is the
\* number of documents that hold it, and the common-field set is exactly the set of
\* keys whose frequency is N, which are the keys that occur in every document.
C3_CommonIsFrequencyN ==
    Scanned =>
        LET N == Len(corpus)
        IN  /\ DOMAIN field_frequency = all_fields
            /\ \A k \in all_fields :
                   field_frequency[k] = Cardinality({i \in 1..N : k \in DocFields(i)})
            /\ common_fields = {k \in all_fields : field_frequency[k] = N}
            /\ \A k \in all_fields :
                   k \in common_fields <=> \A i \in 1..N : k \in DocFields(i)

C3_Witness ==
    /\ pc = "done" /\ Len(corpus) = 3
    /\ common_fields = {K("a")}
    /\ all_fields = {K("a"), K("b"), K("c")}

----------------------------------------------------------------------------
(* C4 *)

\* C4: for every file, with F the fingerprint of its document, the missing list is
\* (as a set) CommonFieldSet minus F and the extra list is F minus CommonFieldSet,
\* and two files with the same fingerprint get the same lists.
C4_Deviations ==
    Analyzed =>
        \A i \in 1..Len(corpus) :
            LET F    == DocFields(i)
                name == corpus[i].file_name
            IN  /\ AsSet(ListOf(missing_fields, name)) = common_fields \ F
                /\ AsSet(ListOf(extra_fields, name)) = F \ common_fields
                /\ Len(ListOf(extra_fields, name)) = Cardinality(F \ common_fields)
                /\ \A j \in 1..Len(corpus) :
                       DocFields(j) = F =>
                           /\ ListOf(missing_fields, corpus[j].file_name) = ListOf(missing_fields, name)
                           /\ ListOf(extra_fields, corpus[j].file_name) = ListOf(extra_fields, name)

C4_Witness ==
    /\ pc = "done" /\ Len(corpus) = 3
    /\ corpus[1].content = DocAB /\ corpus[2].content = DocAC /\ corpus[3].content = DocBA
    /\ ListOf(extra_fields, FileName(1)) = <<K("b")>>
    /\ ListOf(extra_fields, FileName(3)) = <<K("b")>>
    /\ ListOf(extra_fields, FileName(2)) = <<K("c")>>

----------------------------------------------------------------------------
(* C5 *)

\* C5: if a file of the corpus cannot be read or parsed, the run never gets past
\* that file: the scan stops there with the exception, no later file is processed,
\* and nothing is ever printed or written, wherever the file is in the listing.
C5_BadFileAborts ==
    \A i \in 1..Len(corpus) :
        ~Parses(corpus[i].content) =>
            /\ idx < i
            /\ pc \in {"scan", "aborted"}
            /\ stdout = <<>> /\ written = {} /\ report = NoReport
            /\ (pc = "aborted" /\ idx = i - 1) => error \in {"JSONDecodeError", "OSError"}
            /\ (pc = "scan" /\ idx = i - 1) => ~ENABLED ProcessFile /\ ~ENABLED ComputeCommon

C5_Witness ==
    /\ pc = "aborted" /\ error = "JSONDecodeError" /\ idx = 2
    /\ Len(corpus) = 3 /\ corpus[3].content = NotJson
    /\ Len(file_structures) = 2

----------------------------------------------------------------------------
(* C6 *)

\* C6: for a corpus of zero files the analysis returns an empty frequency table, an
\* empty common-field set and no groups, no ZeroDivisionError (or other error) is
\* raised, and the report printed states "Total files analyzed: 0".
C6_EmptyCorpus ==
    (fpc = "idle" /\ corpus = <<>>) =>
        /\ pc # "aborted" /\ error = "none"
        /\ Scanned => /\ DOMAIN field_frequency = {}
                      /\ common_fields = {}
                      /\ file_structures = <<>>
                      /\ missing_fields = <<>> /\ extra_fields = <<>>
        /\ pc \in {"export", "done"} =>
               /\ report.total = <<"Total files analyzed: ", 0>>
               /\ DOMAIN report.frequency = {}
               /\ stdout[1] = report
               /\ <<"report", 0>> \in written

C6_Witness == fpc = "idle" /\ corpus = <<>> /\ pc = "done" /\ Len(stdout) = 2

----------------------------------------------------------------------------
(* C7 *)

\* C7: the structure key of a document does not change when the keys of any of its
\* objects are re-ordered, and two files whose documents differ only in key order
\* are put in the same group.
C7_KeyOrderInvariant ==
    /\ fpc = "keyed" =>
           \A r \in Reorderings(data) : StructureKey(flatten_json(r, <<>>)) = structure_key
    /\ Scanned =>
           \A i, j \in 1..Len(corpus) :
               corpus[j].content \in Reorderings(corpus[i].content) =>
                   /\ StructureKey(FieldDict(variant, corpus[j].content))
                        = StructureKey(FieldDict(variant, corpus[i].content))
                   /\ \E g \in 1..Len(file_structures) :
                          {corpus[i].file_name, corpus[j].file_name} \subseteq AsSet(file_structures[g][2])

C7_Witness ==
    /\ pc = "done" /\ variant = "flat" /\ Len(corpus) = 3
    /\ corpus[1].content = DocNest /\ corpus[2].content = DocBA /\ corpus[3].content = DocNest2
    /\ Len(file_structures) = 2
    /\ file_structures[1][2] = <<FileName(1), FileName(3)>>

----------------------------------------------------------------------------
(* C8 *)

\* C8 as stated: an empty object or an empty array anywhere in the document (top
\* level, field value, array element) contributes no key.
C8_EmptyContributesNothing ==
    Returned =>
        /\ data \in {Obj(<<>>), Arr(<<>>)} => flattened = <<>>
        /\ \A e \in Visited(data) : e[2] \in {Obj(<<>>), Arr(<<>>)} => Under(e[1]) = {}

\* C8 amended: an empty object (at top level, as a field value or as an array
\* element) and a top-level empty array contribute no key; an empty array that is a
\* field value or an element of the top-level array contributes exactly one key, its
\* path, mapped to "Array[0]".  No case raises an error.
\* (Documents in which two different fields spell the same path are set aside.)
C8_EmptyContainers ==
    Returned =>
        /\ data \in {Obj(<<>>), Arr(<<>>)} => flattened = <<>>
        /\ \A e \in Visited(data) :
               /\ e[2] = Obj(<<>>) => Under(e[1]) = {}
               /\ e[2] = Arr(<<>>) =>
                      /\ Under(e[1]) = {e[1]}
                      /\ DictGet(flattened, e[1]) = ArrayN("0")

C8_Witness ==
    /\ fpc = "keyed"
    /\ data = Obj(<< <<K("a"), Obj(<< <<K("b"), Arr(<<>>)>>, <<K("a"), Obj(<<>>)>> >>)>> >>)
    /\ flattened = << <<K("a.b"), ArrayN("0")>> >>

----------------------------------------------------------------------------
(* C9 *)

\* C9: a document whose top-level value is an array or a scalar is not an error:
\* the run does not stop at it, and once processed the file is in the group of the
\* keys of its flattened form (the empty-string key for a scalar).
C9_NonObjectDocument ==
    \A i \in 1..Len(corpus) :
        LET c == corpus[i].content
        IN  (Parses(c) /\ ~IsDict(c)) =>
                /\ ~(pc = "aborted" /\ idx = i - 1)
                /\ idx >= i =>
                       \E g \in 1..Len(file_structures) :
                           /\ file_structures[g][1] = StructureKey(flatten_json(c, <<>>))
                           /\ corpus[i].file_name \in AsSet(file_structures[g][2])
                /\ (idx >= i /\ IsScalar(c)) =>
                       \E g \in 1..Len(file_structures) :
                           /\ file_structures[g][1] = << <<>> >>
                           /\ corpus[i].file_name \in AsSet(file_structures[g][2])

----------------------------------------------------------------------------
(* C10 *)

\* C10: missing_fields never receives an entry: every key whose frequency is the
\* number of files is in every file's fingerprint, so only extra_fields is filled.
C10_MissingAlwaysEmpty ==
    /\ missing_fields = <<>>
    /\ Scanned => \A g \in 1..Len(file_structures) :
                      common_fields \subseteq AsSet(file_structures[g][1])

C10_Witness ==
    /\ pc = "done" /\ Len(corpus) = 3 /\ Len(file_structures) = 3
    /\ common_fields = {}
    /\ Len(extra_fields) = 3
====
